---- MODULE Spec2Model ----
(***************************************************************************)
(* Note lifecycle synchronisation of the notes front end (App.tsx).        *)
(*                                                                         *)
(* The React component's state hooks are the variables.  An async handler  *)
(* is split at its single await: the part before the await is one action   *)
(* (it issues a call), the part after it is the completion action of that  *)
(* call.  A call keeps what the handler's closure captured when it was     *)
(* invoked (its arguments and the editingId of that render); functional    *)
(* state updaters (setNotes(prev => ...)) read the state current at the    *)
(* completion.  A handler's guard reads the state of the latest render:   *)
(* React renders after each event and each completion before the next      *)
(* event is dispatched.  The Notes Store (the HTTP back end) is not part   *)
(* of the sources; it is modelled from the request/response contract.      *)
(***************************************************************************)
EXTENDS Integers, Sequences, FiniteSets, Bags, TLC

VARIABLES
    notes,        \* useState<Note[]>([])
    newText,      \* the new-note input
    err,          \* the error banner's text, "" when there is none
    isLoading, isAdding, deletingId,
    editingId, editingText, savingEdit,
    calls,        \* the api() calls in flight (a bag)
    store,        \* the Notes Store's table: id -> text
    nextId,       \* the next id the Store assigns
    issued,       \* number of api() calls made so far
    lastEvt       \* the handler invocation or completion the last step performed

uiVars   == <<notes, newText, err, isLoading, isAdding, deletingId,
              editingId, editingText, savingEdit>>
editVars == <<editingId, editingText, savingEdit>>
envVars  == <<calls, store, nextId, issued>>
vars     == <<notes, newText, err, isLoading, isAdding, deletingId,
              editingId, editingText, savingEdit, calls, store, nextId, issued, lastEvt>>

-----------------------------------------------------------------------------
(* Bounds *)

\* api() calls made in one run, the load of the mount effect included
MaxReq == 3

-----------------------------------------------------------------------------
(* Values *)

\* null of deletingId / editingId
None == 0

\* the empty string
Empty == <<>>

\* texts are sequences of characters, so that trim() is computed
WS == " "
RawTexts == { <<" ">>, <<" ", "b", " ">> }

RECURSIVE TrimLeft(_)
TrimLeft(s) == IF s # <<>> /\ Head(s) = WS THEN TrimLeft(Tail(s)) ELSE s

RECURSIVE TrimRight(_)
TrimRight(s) ==
    IF s # <<>> /\ s[Len(s)] = WS THEN TrimRight(SubSeq(s, 1, Len(s) - 1)) ELSE s

\* String.prototype.trim
Trim(s) == TrimRight(TrimLeft(s))

Note(i, t) == [id |-> i, text |-> t]

Range(s) == { s[k] : k \in DOMAIN s }

Ids(s) == { s[k].id : k \in DOMAIN s }

\* the updated note put back at the front when prev does not hold its id
MapUpsert(prev, updated) ==
    IF updated.id \in Ids(prev)
    THEN [k \in DOMAIN prev |-> IF prev[k].id = updated.id THEN updated ELSE prev[k]]
    ELSE <<updated>> \o prev

\* prev.map(n => n.id === updated.id ? updated : n)
MapReplace(prev, updated) ==
    [k \in DOMAIN prev |-> IF prev[k].id = updated.id THEN updated ELSE prev[k]]

\* prev.filter(n => n.id === id)
FilterOnly(prev, id) == SelectSeq(prev, LAMBDA n : n.id = id)

\* prev.filter(n => n.id !== id)
FilterOut(prev, id) == SelectSeq(prev, LAMBDA n : n.id # id)

\* [...prev, created]
Append1(created, prev) == prev \o <<created>>

\* [created, ...prev]
Prepend(created, prev) == <<created>> \o prev

-----------------------------------------------------------------------------
(* api(): responses and error normalisation *)

NoResp == [st |-> "sent", status |-> 0, data |-> <<>>, body |-> ""]
OkResp(d) == [st |-> "ok", status |-> 200, data |-> d, body |-> ""]
FailResp(status, body) == [st |-> "fail", status |-> status, data |-> <<>>, body |-> body]

\* the failures the Store or the transport may answer with
Failures == { FailResp(500, "") }

StatusText(status) ==
    IF status = 500 THEN "Request failed (500)" ELSE "Request failed (404)"

\* throw new Error(text || `Request failed (${res.status})`)
ApiError(r) == IF r.body # "" THEN r.body ELSE StatusText(r.status)

\* a call in flight: the operation, its arguments, the editingId its handler
\* captured, and the Store's response once the Store has answered
Call(op, id, t, ed) == [op |-> op, id |-> id, t |-> t, ed |-> ed, resp |-> NoResp]

InFlight(op) == { c \in BagToSet(calls) : c.op = op }

\* number of calls of an operation that are in flight
NumInFlight(op) == BagCardinality([c \in InFlight(op) |-> calls[c]])

Issue(c) == calls' = calls (+) SetToBag({c}) /\ issued' = issued + 1

\* an event: the handler or completion, the note id it is about, whether the
\* handler ran (a completion: whether the call succeeded), and the editingId
\* the step found
Evt(kind, id, ok) == [kind |-> kind, id |-> id, ok |-> ok, ed |-> editingId]

-----------------------------------------------------------------------------
(* Notes Store *)

RECURSIVE DescSeq(_)
DescSeq(S) ==
    IF S = {} THEN <<>>
    ELSE LET m == CHOOSE x \in S : \A y \in S : y <= x
         IN <<m>> \o DescSeq(S \ {m})

\* GET /notes
StoreList == LET ids == DescSeq(DOMAIN store)
             IN [k \in DOMAIN ids |-> Note(ids[k], store[ids[k]])]

StorePut(i, t) == [j \in DOMAIN store \cup {i} |-> IF j = i THEN t ELSE store[j]]

StoreDel(i) == [j \in DOMAIN store \ {i} |-> store[j]]

Answer(c, r) == calls' = (calls (-) SetToBag({c})) (+) SetToBag({[c EXCEPT !.resp = r]})

ServeOk(c) ==
    /\ c \in BagToSet(calls)
    /\ c.resp.st = "sent"
    /\ \/ /\ c.op = "load"
          /\ Answer(c, OkResp(StoreList))
          /\ UNCHANGED <<store, nextId>>
       \/ /\ c.op = "create"
          /\ store' = StorePut(nextId, c.t)
          /\ nextId' = nextId + 1
          /\ Answer(c, OkResp(<<Note(nextId, c.t)>>))
       \/ /\ c.op = "save"
          /\ c.id \in DOMAIN store
          /\ store' = StorePut(c.id, c.t)
          /\ Answer(c, OkResp(<<Note(c.id, c.t)>>))
          /\ UNCHANGED nextId
       \/ /\ c.op = "delete"
          /\ store' = StoreDel(c.id)
          /\ Answer(c, OkResp(<<>>))
          /\ UNCHANGED nextId
    /\ lastEvt' = Evt("serve", None, TRUE)
    /\ UNCHANGED <<uiVars, issued>>

-----------------------------------------------------------------------------
(* Handlers of App *)

Init ==
    /\ notes = <<>>
    /\ newText = Empty
    /\ err = ""
    /\ isLoading = TRUE
    /\ isAdding = FALSE
    /\ deletingId = None
    /\ editingId = None
    /\ editingText = Empty
    /\ savingEdit = FALSE
    /\ calls = SetToBag({Call("load", None, Empty, None)})
    /\ store = [i \in {1} |-> <<"a">>]
    /\ nextId = 2
    /\ issued = 1
    /\ lastEvt = Evt("mount", None, TRUE)

\* the part of loadNotes before its await
loadNotes ==
    /\ issued < MaxReq
    /\ err' = ""
    /\ isLoading' = TRUE
    /\ Issue(Call("load", None, Empty, None))
    /\ lastEvt' = Evt("loadNotes", None, TRUE)
    /\ UNCHANGED <<notes, newText, isAdding, deletingId, editVars, store, nextId>>

\* onChange of the new-note input
setNewText(s) ==
    /\ newText' = s
    /\ lastEvt' = Evt("setNewText", None, TRUE)
    /\ UNCHANGED <<notes, err, isLoading, isAdding, deletingId, editVars, envVars>>

\* a handler that returns at its guard: nothing is set, nothing is sent
Rejected(kind, id) ==
    /\ lastEvt' = Evt(kind, id, FALSE)
    /\ UNCHANGED <<uiVars, envVars>>

\* addNote's guard without the isAdding test
AddRejectsEmptyOnly == Trim(newText) = Empty

\* if (!t || isAdding) return
AddRejects == Trim(newText) = Empty \/ isAdding

\* the part of addNote before its await
addNote ==
    LET t == Trim(newText) IN
    IF AddRejects
    THEN Rejected("addNote", None)
    ELSE /\ issued < MaxReq
         /\ err' = ""
         /\ isAdding' = TRUE
         /\ Issue(Call("create", None, t, None))
         /\ lastEvt' = Evt("addNote", None, TRUE)
         /\ UNCHANGED <<notes, newText, isLoading, deletingId, editVars, store, nextId>>

startEdit(n) ==
    /\ err' = ""
    /\ editingId' = n.id
    /\ editingText' = n.text
    /\ lastEvt' = Evt("startEdit", n.id, TRUE)
    /\ UNCHANGED <<notes, newText, isLoading, isAdding, deletingId, savingEdit, envVars>>

\* onChange of the edit textarea
setEditingText(s) ==
    /\ editingId # None
    /\ editingText' = s
    /\ lastEvt' = Evt("setEditingText", None, TRUE)
    /\ UNCHANGED <<notes, newText, err, isLoading, isAdding, deletingId,
                   editingId, savingEdit, envVars>>

\* cancelEdit without its setSavingEdit(false)
CancelEditKeepsSaving ==
    /\ editingId' = None
    /\ editingText' = Empty
    /\ UNCHANGED savingEdit

\* the three assignments of cancelEdit
CancelEditEffect ==
    /\ editingId' = None
    /\ editingText' = Empty
    /\ savingEdit' = FALSE

cancelEdit ==
    /\ CancelEditEffect
    /\ lastEvt' = Evt("cancelEdit", None, TRUE)
    /\ UNCHANGED <<notes, newText, err, isLoading, isAdding, deletingId, envVars>>

\* saveEdit's guard testing the draft as typed, not trimmed
SaveRejectsUntrimmed == editingId = None \/ editingText = Empty \/ savingEdit

\* if (editingId === null) return; if (!t || savingEdit) return
SaveRejects == editingId = None \/ Trim(editingText) = Empty \/ savingEdit

\* the part of saveEdit before its await
saveEdit ==
    LET t == Trim(editingText) IN
    IF SaveRejects
    THEN Rejected("saveEdit", editingId)
    ELSE /\ issued < MaxReq
         /\ err' = ""
         /\ savingEdit' = TRUE
         /\ Issue(Call("save", editingId, t, None))
         /\ lastEvt' = Evt("saveEdit", editingId, TRUE)
         /\ UNCHANGED <<notes, newText, isLoading, isAdding, deletingId,
                        editingId, editingText, store, nextId>>

\* deleteNote without its guard
DeleteRejectsNever(id) == FALSE

\* if (deletingId !== null) return: whatever the id
DeleteRejects(id) == deletingId # None

\* the part of deleteNote before its await
deleteNote(id) ==
    IF DeleteRejects(id)
    THEN Rejected("deleteNote", id)
    ELSE /\ issued < MaxReq
         /\ err' = ""
         /\ deletingId' = id
         /\ Issue(Call("delete", id, Empty, editingId))
         /\ lastEvt' = Evt("deleteNote", id, TRUE)
         /\ UNCHANGED <<notes, newText, isLoading, isAdding, editVars, store, nextId>>

-----------------------------------------------------------------------------
(* Completions: the part of each async handler after its await *)

Remove(c) == calls' = calls (-) SetToBag({c}) /\ UNCHANGED issued

\* what the await of a call may resolve to: the Store's answer once it has
\* answered; a rejection (fetch failure or non-2xx) as long as it has not
Outcomes(c) == IF c.resp.st = "sent" THEN Failures ELSE {c.resp}

\* catch (e) { setErr(e.message) }
Caught(r) == err' = ApiError(r)

\* the response merged into the notes: local notes it lacks are kept
LoadSucceededMerges(r) ==
    /\ notes' = r.data \o SelectSeq(notes, LAMBDA n : n.id \notin Ids(r.data))
    /\ UNCHANGED err

\* loadNotes: setNotes(data)
LoadSucceeded(r) == notes' = r.data /\ UNCHANGED err

LoadFailed(r) == Caught(r) /\ UNCHANGED notes

\* setIsLoading(false) at the end of the try instead of in the finally
loadNotesDoneNoFinally(c, r) ==
    /\ c \in BagToSet(calls)
    /\ c.op = "load"
    /\ r \in Outcomes(c)
    /\ IF r.st = "ok" THEN LoadSucceeded(r) ELSE LoadFailed(r)
    /\ isLoading' = IF r.st = "ok" THEN FALSE ELSE isLoading
    /\ Remove(c)
    /\ lastEvt' = Evt("loadNotesDone", None, r.st = "ok")
    /\ UNCHANGED <<newText, isAdding, deletingId, editVars, store, nextId>>

\* loadNotes after the await: try / catch / finally { setIsLoading(false) }
loadNotesDone(c, r) ==
    /\ c \in BagToSet(calls)
    /\ c.op = "load"
    /\ r \in Outcomes(c)
    /\ IF r.st = "ok" THEN LoadSucceeded(r) ELSE LoadFailed(r)
    /\ isLoading' = FALSE
    /\ Remove(c)
    /\ lastEvt' = Evt("loadNotesDone", None, r.st = "ok")
    /\ UNCHANGED <<newText, isAdding, deletingId, editVars, store, nextId>>

\* the success path of addNote clearing the error as well
AddSucceededClearsErr(r) ==
    /\ notes' = Prepend(r.data[1], notes)
    /\ newText' = Empty
    /\ err' = ""

\* addNote: setNotes(prev => [created, ...prev]); setNewText("")
AddSucceeded(r) ==
    /\ notes' = Prepend(r.data[1], notes)
    /\ newText' = Empty
    /\ UNCHANGED err

\* the catch of addNote clearing the input as the success path does
AddFailedClears(r) == Caught(r) /\ newText' = Empty /\ UNCHANGED notes

AddFailed(r) == Caught(r) /\ UNCHANGED <<notes, newText>>

addNoteDone(c, r) ==
    /\ c \in BagToSet(calls)
    /\ c.op = "create"
    /\ r \in Outcomes(c)
    /\ IF r.st = "ok" THEN AddSucceeded(r) ELSE AddFailed(r)
    /\ isAdding' = FALSE
    /\ Remove(c)
    /\ lastEvt' = Evt("addNoteDone", None, r.st = "ok")
    /\ UNCHANGED <<isLoading, deletingId, editVars, store, nextId>>

\* the save's response dropped when its edit session is no longer open
SavedNotesIfOpen(c, r) ==
    IF editingId = c.id THEN MapReplace(notes, r.data[1]) ELSE notes

\* saveEdit: the updater of setNotes reads the notes of the completion
SavedNotes(c, r) == MapReplace(notes, r.data[1])

SaveSucceeded(c, r) ==
    /\ notes' = SavedNotes(c, r)
    /\ CancelEditEffect
    /\ UNCHANGED err

\* the catch of saveEdit ending the edit session as the success path does
SaveFailedCancels(r) == Caught(r) /\ CancelEditEffect /\ UNCHANGED notes

\* saveEdit: catch { setErr(...); setSavingEdit(false) }
SaveFailed(r) ==
    /\ Caught(r)
    /\ savingEdit' = FALSE
    /\ UNCHANGED <<notes, editingId, editingText>>

saveEditDone(c, r) ==
    /\ c \in BagToSet(calls)
    /\ c.op = "save"
    /\ r \in Outcomes(c)
    /\ IF r.st = "ok" THEN SaveSucceeded(c, r) ELSE SaveFailed(r)
    /\ Remove(c)
    /\ lastEvt' = Evt("saveEditDone", c.id, r.st = "ok")
    /\ UNCHANGED <<newText, isLoading, isAdding, deletingId, store, nextId>>

\* deleteNote: if (editingId === id) reads the editingId of the render in
\* which deleteNote was invoked, which the call keeps in ed
DeleteSucceeded(c) ==
    /\ notes' = FilterOut(notes, c.id)
    /\ IF c.ed = c.id THEN CancelEditEffect ELSE UNCHANGED editVars
    /\ UNCHANGED err

DeleteFailed(r) == Caught(r) /\ UNCHANGED <<notes, editVars>>

deleteNoteDone(c, r) ==
    /\ c \in BagToSet(calls)
    /\ c.op = "delete"
    /\ r \in Outcomes(c)
    /\ IF r.st = "ok" THEN DeleteSucceeded(c) ELSE DeleteFailed(r)
    /\ deletingId' = None
    /\ Remove(c)
    /\ lastEvt' = Evt("deleteNoteDone", c.id, r.st = "ok")
    /\ UNCHANGED <<newText, isLoading, isAdding, store, nextId>>

-----------------------------------------------------------------------------
(* The view: what App renders decides which handlers the user can reach *)

\* the list is rendered only when isLoading is false
RowsShown == ~isLoading

\* the row that holds the textarea, Save and Cancel
EditRowShown == RowsShown /\ editingId \in Ids(notes)

\* <button onClick={loadNotes} disabled={isLoading}>
RefreshDisabled == isLoading

\* canAdd = newText.trim().length > 0 && !isAdding
canAdd == Len(Trim(newText)) > 0 /\ ~isAdding

\* Edit disabled on the row being deleted only
EditDisabledWhileDeleting(n) == deletingId = n.id

\* Edit: disabled={editingId !== null || isDeleting}
EditDisabled(n) == editingId # None \/ deletingId = n.id

\* Save: disabled={savingEdit || editingText.trim().length === 0}
SaveDisabled == savingEdit \/ Len(Trim(editingText)) = 0

\* Delete disabled only on the row being deleted
DeleteDisabledWhileDeleting(n) == deletingId = n.id

\* Delete: disabled={isDeleting || editingId === n.id}
DeleteDisabled(n) == deletingId = n.id \/ editingId = n.id

\* a click on a disabled button reaches no handler
ClickRefresh == IF RefreshDisabled THEN Rejected("loadNotes", None) ELSE loadNotes

SubmitAdd == IF ~canAdd THEN Rejected("addNote", None) ELSE addNote

ClickEdit(n) ==
    /\ RowsShown
    /\ IF EditDisabled(n) THEN Rejected("startEdit", n.id) ELSE startEdit(n)

TypeEdit(s) == EditRowShown /\ setEditingText(s)

ClickSave ==
    /\ EditRowShown
    /\ IF SaveDisabled THEN Rejected("saveEdit", editingId) ELSE saveEdit

ClickCancel == EditRowShown /\ cancelEdit

ClickDelete(n) ==
    /\ RowsShown
    /\ IF DeleteDisabled(n) THEN Rejected("deleteNote", n.id) ELSE deleteNote(n.id)

-----------------------------------------------------------------------------

\* what the Store and the completions of the calls in flight do
Async ==
    \/ \E c \in BagToSet(calls) : ServeOk(c)
    \/ \E c \in BagToSet(calls) : \E r \in Outcomes(c) : loadNotesDone(c, r)
    \/ \E c \in BagToSet(calls) : \E r \in Outcomes(c) : addNoteDone(c, r)
    \/ \E c \in BagToSet(calls) : \E r \in Outcomes(c) : saveEditDone(c, r)
    \/ \E c \in BagToSet(calls) : \E r \in Outcomes(c) : deleteNoteDone(c, r)

\* the operations of the component, invoked in any order
Next ==
    \/ loadNotes
    \/ \E s \in RawTexts : setNewText(s)
    \/ addNote
    \/ \E n \in Range(notes) : startEdit(n)
    \/ \E s \in RawTexts : setEditingText(s)
    \/ cancelEdit
    \/ saveEdit
    \/ \E n \in Range(notes) : deleteNote(n.id)
    \/ Async

Spec == Init /\ [][Next]_vars

\* the operations as the rendered view lets the user reach them
NextUI ==
    \/ ClickRefresh
    \/ \E s \in RawTexts : setNewText(s)
    \/ SubmitAdd
    \/ \E n \in Range(notes) : ClickEdit(n)
    \/ \E s \in RawTexts : TypeEdit(s)
    \/ ClickCancel
    \/ ClickSave
    \/ \E n \in Range(notes) : ClickDelete(n)
    \/ Async

SpecUI == Init /\ [][NextUI]_vars

-----------------------------------------------------------------------------
(* Properties *)

\* the call a completion step takes out of flight
Completed == { c \in BagToSet(calls) : CopiesIn(c, calls') < CopiesIn(c, calls) }

\* the step is an invocation of the handler kind
Invokes(kind) == lastEvt'.kind = kind

\* the step is the completion kind of a call, with the given outcome
Completes(kind, ok) == lastEvt'.kind = kind /\ lastEvt'.ok = ok

NoStateChange == UNCHANGED <<uiVars, envVars>>

\* C1: the local notes hold at most one note per id, in every reachable state.
C1_OneNotePerId == Cardinality(Ids(notes)) = Len(notes)

\* C2: at most one update (SaveEdit) request is in flight at any instant.
C2_OneSaveInFlight == NumInFlight("save") <= 1

\* C3: Create invoked while creating is a no-op (no request, no state change),
\* and at most one create request is in flight at any instant.
C3_SingleFlightCreate ==
    [][ /\ NumInFlight("create") <= 1
        /\ NumInFlight("create")' <= 1
        /\ (isAdding /\ Invokes("addNote")) => (~lastEvt'.ok /\ NoStateChange) ]_vars

\* Create was invoked with a non-empty text while a create was in flight
C3_Witness ==
    /\ lastEvt.kind = "addNote" /\ ~lastEvt.ok
    /\ isAdding /\ Trim(newText) # Empty
    /\ NumInFlight("create") = 1

\* deletingId is the id of the one delete in flight, None when there is none
DeleteSlot ==
    /\ NumInFlight("delete") <= 1
    /\ (deletingId = None) <=> (InFlight("delete") = {})
    /\ \A c \in InFlight("delete") : c.id = deletingId

\* C4: at most one delete request is in flight, across all note ids; Delete
\* invoked while deletingId is set issues no request and changes no state, and
\* deletingId is the id of the delete in flight.
C4_SingleFlightDelete ==
    [][ /\ DeleteSlot
        /\ DeleteSlot'
        /\ (deletingId # None /\ Invokes("deleteNote")) => (~lastEvt'.ok /\ NoStateChange)
      ]_vars

\* Delete of another note was invoked while a delete was in flight
C4_Witness ==
    /\ lastEvt.kind = "deleteNote" /\ ~lastEvt.ok
    /\ deletingId # None /\ lastEvt.id # deletingId
    /\ NumInFlight("delete") = 1


\* C5: a save that succeeds replaces the note with the same id in the local
\* notes by the returned record, whether or not its edit session was cancelled
\* while the request was in flight.
C5_SaveAppliedAfterCancel ==
    [][ Completes("saveEditDone", TRUE) =>
            \A c \in Completed : \A k \in DOMAIN notes :
                notes[k].id = c.id =>
                    (k \in DOMAIN notes' /\ notes'[k] = c.resp.data[1]) ]_vars

\* a save succeeded while no session was open on its note, and its text shows
C5_Witness ==
    /\ lastEvt.kind = "saveEditDone" /\ lastEvt.ok
    /\ lastEvt.ed # lastEvt.id
    /\ \E k \in DOMAIN notes : notes[k] = Note(lastEvt.id, <<"b">>)

C7_EditExclusive ==
    [][ (Invokes("startEdit") /\ editingId # None) =>
            (~lastEvt'.ok /\ UNCHANGED <<editingId, editingText, savingEdit, err, notes>>)
      ]_vars

\* Edit was clicked on a row while a session was open on another note
C7_Witness ==
    /\ lastEvt.kind = "startEdit" /\ ~lastEvt.ok
    /\ lastEvt.ed # None /\ lastEvt.ed # lastEvt.id
    /\ editingId = lastEvt.ed

\* C8: a save that fails while its session is open leaves editingId and the
\* draft as they were, clears savingEdit and sets lastError; SaveEdit then
\* accepts a retry.
C8_SaveFailureKeepsDraft ==
    [][ (Completes("saveEditDone", FALSE) /\ editingId = lastEvt'.id) =>
            /\ editingId' = editingId
            /\ editingText' = editingText
            /\ savingEdit' = FALSE
            /\ err' # ""
            /\ Trim(editingText) # Empty => ~SaveRejects' ]_vars

\* a save failed with its session open, and the draft is still there
C8_Witness ==
    /\ lastEvt.kind = "saveEditDone" /\ ~lastEvt.ok
    /\ lastEvt.ed = lastEvt.id /\ editingId = lastEvt.id
    /\ editingText = <<" ", "b", " ">>
    /\ ~savingEdit /\ err # ""

\* the busy flags other than the one of the completion kind keep their values
OtherFlagsKept(kind) ==
    /\ kind # "loadNotesDone" => isLoading' = isLoading
    /\ kind # "addNoteDone" => isAdding' = isAdding
    /\ kind # "saveEditDone" => savingEdit' = savingEdit
    /\ kind # "deleteNoteDone" => deletingId' = deletingId

OwnFlagCleared(kind) ==
    /\ kind = "loadNotesDone" => isLoading' = FALSE
    /\ kind = "addNoteDone" => isAdding' = FALSE
    /\ kind = "saveEditDone" => savingEdit' = FALSE
    /\ kind = "deleteNoteDone" => deletingId' = None

DoneKinds == {"loadNotesDone", "addNoteDone", "saveEditDone", "deleteNoteDone"}

\* C9: a failed completion of Load, Create, SaveEdit or Delete sets lastError
\* and clears its own busy flag only; notes, editingId, editingDraft and the
\* input draft are what they were before it.
C9_FailureLeavesState ==
    [][ \A kind \in DoneKinds : Completes(kind, FALSE) =>
            /\ err' # ""
            /\ OwnFlagCleared(kind)
            /\ OtherFlagsKept(kind)
            /\ UNCHANGED <<notes, editingId, editingText, newText>> ]_vars

\* a create failed while a draft was in the input and a session was open
C9_Witness ==
    /\ lastEvt.kind = "addNoteDone" /\ ~lastEvt.ok
    /\ newText # Empty /\ editingId # None /\ notes # <<>>
    /\ err # "" /\ ~isAdding

\* C10: a successful Create completion yields the returned note followed by
\* the notes as they stand when the response is applied.
C10_CreatePrepends ==
    [][ Completes("addNoteDone", TRUE) =>
            \A c \in Completed :
                /\ notes' # <<>>
                /\ Head(notes') = c.resp.data[1]
                /\ Tail(notes') = notes ]_vars

\* a create was applied on notes that a Load had replaced since it was issued
C10_Witness ==
    /\ lastEvt.kind = "addNoteDone" /\ lastEvt.ok
    /\ Len(notes) >= 3
    /\ notes[1].id \in Ids(Tail(notes))

\* the positions of s that hold a note with another id than id
KeptAt(s, id) == { k \in DOMAIN s : s[k].id # id }

\* t is s without the notes with id, the others in their order
IsWithout(t, s, id) ==
    /\ Len(t) = Cardinality(KeptAt(s, id))
    /\ \A k \in KeptAt(s, id) :
           t[Cardinality({ j \in KeptAt(s, id) : j <= k })] = s[k]

\* C11: a successful Delete(id) completion removes exactly the notes with that
\* id and keeps the others in their order; issuing the request and a failed
\* completion remove nothing.
C11_DeleteRemovesOnSuccess ==
    [][ /\ Completes("deleteNoteDone", TRUE) => IsWithout(notes', notes, lastEvt'.id)
        /\ Completes("deleteNoteDone", FALSE) => notes' = notes
        /\ Invokes("deleteNote") => notes' = notes ]_vars

\* a delete succeeded and took its note out from under another note
C11_Witness ==
    /\ lastEvt.kind = "deleteNoteDone" /\ lastEvt.ok
    /\ notes # <<>>
    /\ lastEvt.id \notin Ids(notes)
    /\ lastEvt.id \notin DOMAIN store

\* a text of whitespace only, the empty text included
AllBlank(s) == \A k \in DOMAIN s : s[k] = WS

\* C12: Create with a text, and SaveEdit with a draft, that is empty after
\* trimming issues no request and changes no state, lastError included.
C12_BlankTextIgnored ==
    [][ /\ (Invokes("addNote") /\ AllBlank(newText)) => (~lastEvt'.ok /\ NoStateChange)
        /\ (Invokes("saveEdit") /\ AllBlank(editingText)) => (~lastEvt'.ok /\ NoStateChange)
      ]_vars

\* SaveEdit was invoked on a draft of one blank, with an error on display
C12_Witness ==
    /\ lastEvt.kind = "saveEdit" /\ ~lastEvt.ok
    /\ editingId # None /\ editingText = <<" ">> /\ ~savingEdit
    /\ newText = <<" ">> /\ ~isAdding
    /\ err # ""

\* C13: a successful Load replaces notes by the Store's response, without
\* merging; a successful Load that directly follows a successful Load and
\* brings the same collection leaves notes as they are.
C13_LoadReplacesWholesale ==
    [][ Completes("loadNotesDone", TRUE) =>
            \A c \in Completed :
                /\ notes' = c.resp.data
                /\ (lastEvt.kind = "loadNotesDone" /\ lastEvt.ok /\ c.resp.data = notes)
                       => notes' = notes ]_vars

\* two loads were made against the unchanged Store, the last one succeeded and
\* notes is the Store's list
C13_Witness ==
    /\ lastEvt.kind = "loadNotesDone" /\ lastEvt.ok
    /\ issued = 2 /\ calls = EmptyBag
    /\ err = "" /\ nextId = 2 /\ DOMAIN store = {1}
    /\ notes = StoreList /\ notes # <<>>

\* C14: with the actions the view enables, the note being edited is never
\* the note being deleted.
C14_EditedNoteNotDeleting == ~(editingId # None /\ editingId = deletingId)

\* a delete is in flight while an edit session is open on another note
C14_Witness ==
    /\ deletingId # None /\ editingId # None
    /\ editingId # deletingId
    /\ NumInFlight("delete") > 0

-----------------------------------------------------------------------------
(* Liveness: every request issued by api() is eventually settled *)

\* a pending await of api() resolves or rejects; as a run issues at most
\* MaxReq requests, every one of them is settled in the end
Settles ==
    WF_vars(\E c \in BagToSet(calls) : \E r \in Outcomes(c) :
               \/ loadNotesDone(c, r) \/ addNoteDone(c, r)
               \/ saveEditDone(c, r) \/ deleteNoteDone(c, r))

\* the view's behaviours in which requests are settled
SpecLive == SpecUI /\ Settles

\* C15: when every request is eventually settled, isLoading, isAdding and
\* deletingId are each eventually cleared, whether the request succeeded or
\* failed.
C15_BusyEventuallyCleared ==
    /\ isLoading ~> ~isLoading
    /\ isAdding ~> ~isAdding
    /\ (deletingId # None) ~> (deletingId = None)

\* a failed delete has cleared deletingId, and nothing is busy any more
C15_Witness ==
    /\ lastEvt.kind = "deleteNoteDone" /\ ~lastEvt.ok
    /\ deletingId = None /\ ~isLoading /\ ~isAdding
    /\ err # ""

RequestKinds == {"loadNotes", "addNote", "saveEdit", "deleteNote"}

\* the step turns a set lastError into no error
ClearsErr == err # "" /\ err' = ""

SuccessCompletion == lastEvt'.kind \in DoneKinds /\ lastEvt'.ok

\* C16: lastError is cleared only by the start of an accepted Load, Create,
\* SaveEdit or Delete; no successful completion changes lastError.
C16_ErrClearedByRequestsOnly ==
    [][ /\ ClearsErr => (lastEvt'.kind \in RequestKinds /\ lastEvt'.ok)
        /\ SuccessCompletion => err' = err ]_vars

\* C16 as the code has it: lastError is cleared only by the start of an
\* accepted Load, Create, SaveEdit or Delete or by StartEdit; no successful
\* completion changes lastError.
C16_ErrClearedByAttemptsOnly ==
    [][ /\ ClearsErr => (lastEvt'.kind \in RequestKinds \cup {"startEdit"} /\ lastEvt'.ok)
        /\ SuccessCompletion => err' = err ]_vars

\* an error has survived the successful completion of another request
C16_Witness ==
    /\ lastEvt.kind = "deleteNoteDone" /\ lastEvt.ok
    /\ err # ""

\* C17: a successful SaveEdit completion replaces in place the note with the
\* returned record's id: notes keeps its length and its order of ids, every
\* other note is untouched, and when no note has that id notes is unchanged.
C17_SaveReplacesInPlace ==
    [][ Completes("saveEditDone", TRUE) =>
            \A c \in Completed :
                /\ Len(notes') = Len(notes)
                /\ \A k \in DOMAIN notes :
                       /\ notes'[k].id = notes[k].id
                       /\ notes[k].id # c.id => notes'[k] = notes[k]
                       /\ notes[k].id = c.id => notes'[k] = c.resp.data[1]
                /\ c.id \notin Ids(notes) => notes' = notes ]_vars

\* a save succeeded for a note that the local notes no longer hold, and the
\* note was not put back
C17_Witness ==
    /\ lastEvt.kind = "saveEditDone" /\ lastEvt.ok
    /\ notes # <<>>
    /\ lastEvt.id \notin Ids(notes)
    /\ lastEvt.id \in DOMAIN store

\* C18: the completion, successful or failed, of a SaveEdit or Delete request
\* for one note changes neither editingId nor editingDraft nor savingEdit of
\* an edit session open on another note when the completion is applied.
C18_OtherSessionUntouched ==
    [][ ( /\ lastEvt'.kind \in {"saveEditDone", "deleteNoteDone"}
          /\ editingId # None
          /\ editingId # lastEvt'.id )
        => UNCHANGED editVars ]_vars

\* C19: once the Load of the mount and a Create have both completed with
\* success and no request is in flight, the ids of the local notes are the ids
\* the Store holds, in whatever order the two responses were applied.
C19_NotesReflectStore ==
    ( /\ calls = EmptyBag
      /\ issued = 2
      /\ nextId = 3
      /\ lastEvt.kind = "loadNotesDone" /\ lastEvt.ok )
    => Ids(notes) = DOMAIN store

\* C20: in every reachable state savingEdit implies that an edit session is
\* open (editingId is not none).
C20_SavingImpliesEditing == savingEdit => editingId # None

\* a save is pending on an open session, after an earlier session was
\* cancelled while its save was in flight
C20_Witness ==
    /\ savingEdit /\ editingId # None
    /\ NumInFlight("save") = 2

====
